---- MODULE Spec2Model ----
(***************************************************************************)
(* Cache simulator csim.c (CS:APP CacheLab): a set-associative cache with  *)
(* LRU replacement, driven by a replayed memory trace.                     *)
(*                                                                         *)
(* The globals of csim.c are the variables of the same name.  One action   *)
(* models one iteration of the replay loop; a Modify line is two steps,    *)
(* one per access_data call, with pc = "store" between them.               *)
(***************************************************************************)
EXTENDS Integers, Naturals, Sequences, FiniteSets, TLC

(* ------------------------------ bounds -------------------------------- *)
MaxS == 1          \* largest set-index width -s explored
MaxE == 2          \* largest associativity -E explored
MaxB == 1          \* largest block-offset width -b explored
MaxAddr == 3       \* addresses 0..MaxAddr appear in trace lines
MaxSize == 2       \* sizes 1..MaxSize appear in trace lines
MaxLines == 4      \* lines read from the trace file

(* ----------------------------- constants ------------------------------ *)
\* ULLONG_MAX of <limits.h>, scaled to the integer range of the model
\* checker; use_counter stays far below it within MaxLines.
ULLONG_MAX == 2147483647
\* 8 * sizeof(size_t), the limit init_cache puts on s
SIZE_T_BITS == 64
\* sizeof(set_t): one pointer, on the LP64 targets of the lab
SIZEOF_SET_T == 8
EXIT_SUCCESS == 0
EXIT_FAILURE == 1

Addrs == 0..MaxAddr
Sizes == 1..MaxSize
\* the character read by %c: the four known kinds, and "X" for any other
Ops == {"I", "L", "S", "M", "X"}
\* the kinds the replay loop acts on or skips by name
KnownOps == {"I", "L", "S", "M"}

VARIABLES
    s, E, b,            \* int s, E, b
    verbose,            \* int verbose
    tracefile,          \* char *tracefile of main: "NULL" or a path
    cache,              \* cache_t cache: [sets, S, E]
    hit_count, miss_count, eviction_count,
    use_counter,
    pc,                 \* position of main / replay_trace; "undefined" once
                        \* the run has executed undefined behaviour
    exit_status,        \* -1 while running, else the process exit status
    summary,            \* arguments of the printSummary call, <<>> before it
    stderr_msgs,        \* diagnostics written to stderr, in order
    given,              \* option letters present on the command line
    nread,              \* lines fgets has returned so far
    conv,               \* sscanf result for the line of this iteration
    op, addr,           \* locals op, addr of replay_trace (addr kept for "store")
    rets,               \* access_data results of this iteration, in call order
    stdout_line,        \* what this iteration printed to stdout
    acc,                \* locals of the latest access_data call
    nLoadStore, nModify,      \* L/S lines and M lines processed so far
    shadow              \* the companion of the side-by-side specifications

vars == << s, E, b, verbose, tracefile, cache, hit_count, miss_count,
           eviction_count, use_counter, pc, exit_status, summary, stderr_msgs,
           given, nread, conv, op, addr, rets, stdout_line, acc,
           nLoadStore, nModify, shadow >>

(* --------------------------- bit arithmetic --------------------------- *)
RECURSIVE Pow2(_)
Pow2(n) == IF n = 0 THEN 1 ELSE 2 * Pow2(n - 1)

\* x >> n on unsigned values
Shr(x, n) == x \div Pow2(n)

\* x & y on unsigned values
RECURSIVE BitAnd(_, _)
BitAnd(x, y) ==
    IF x = 0 \/ y = 0 THEN 0
    ELSE (IF x % 2 = 1 /\ y % 2 = 1 THEN 1 ELSE 0) + 2 * BitAnd(x \div 2, y \div 2)

\* a size_t or unsigned long long as its 64 bits, bit 0 the lowest
Bits64 == 0..(SIZE_T_BITS - 1)

\* 1ULL << n for 0 <= n < 64
OneShl64(n) == [i \in Bits64 |-> IF i = n THEN 1 ELSE 0]

\* w + w modulo 2^64
Dbl64(w) == [i \in Bits64 |-> IF i = 0 THEN 0 ELSE w[i - 1]]

\* w * n modulo 2^64, n a power of two
RECURSIVE Mul64(_, _)
Mul64(w, n) == IF n = 1 THEN w ELSE Mul64(Dbl64(w), n \div 2)

Zero64(w) == \A i \in Bits64 : w[i] = 0

\* the argument of the first malloc of init_cache: sizeof(set_t) * S
malloc_sets_size(ss) == Mul64(OneShl64(ss), SIZEOF_SET_T)

\* the shifts addr >> b and addr >> (b + s) of access_data are defined
ShiftDefined(ss, bb) == bb < SIZE_T_BITS /\ bb + ss < SIZE_T_BITS

(* ------------------------------ the cache ----------------------------- *)
\* line_t after init_cache
EmptyLine == [valid |-> 0, tag |-> 0, last_used |-> 0]

\* the zero-initialised global cache_t
NoCache == [sets |-> << >>, S |-> 0, E |-> 0]

\* init_cache: S = 1 << s sets of E invalid lines
init_cache(ss, EE) ==
    [sets |-> [i \in 0..(Pow2(ss) - 1) |-> [j \in 0..(EE - 1) |-> EmptyLine]],
     S |-> Pow2(ss), E |-> EE]

\* the globals access_data reads and writes
Globals == [cache |-> cache, hit_count |-> hit_count, miss_count |-> miss_count,
            eviction_count |-> eviction_count, use_counter |-> use_counter]

\* set_mask, set_index and tag of access_data
set_mask(ss) == IF ss > 0 THEN Pow2(ss) - 1 ELSE 0
\* set_index_of without the shift by b
set_index_unshifted(a, ss, bb) == BitAnd(a, set_mask(ss))

set_index_of(a, ss, bb) == BitAnd(Shr(a, bb), set_mask(ss))
tag_of(a, ss, bb) == Shr(a, bb + ss)

\* find_hit that looks at line 0 only
find_hit_first(lines, n, tag, i) ==
    IF n > 0 /\ lines[0].valid # 0 /\ lines[0].tag = tag THEN 0 ELSE -1

\* loop 1: the first valid line whose tag matches, -1 if the loop falls through
RECURSIVE find_hit(_, _, _, _)
find_hit(lines, n, tag, i) ==
    IF i >= n THEN -1
    ELSE IF lines[i].valid # 0 /\ lines[i].tag = tag THEN i
    ELSE find_hit(lines, n, tag, i + 1)

\* find_free scanning from the last line down: the last invalid line
RECURSIVE find_free_last(_, _, _)
find_free_last(lines, n, i) ==
    IF i >= n THEN -1
    ELSE IF lines[n - 1 - i].valid = 0 THEN n - 1 - i
    ELSE find_free_last(lines, n, i + 1)

\* loop 2a: the first invalid line, -1 if the loop falls through
RECURSIVE find_free(_, _, _)
find_free(lines, n, i) ==
    IF i >= n THEN -1
    ELSE IF lines[i].valid = 0 THEN i
    ELSE find_free(lines, n, i + 1)

\* find_lru without the assignment min_used = last_used
RECURSIVE find_lru_stale(_, _, _, _, _)
find_lru_stale(lines, n, i, min_used, lru_index) ==
    IF i >= n THEN lru_index
    ELSE IF lines[i].last_used < min_used
         THEN find_lru_stale(lines, n, i + 1, min_used, i)
         ELSE find_lru_stale(lines, n, i + 1, min_used, lru_index)

\* loop 2b: lru_index after scanning lines i..n-1
RECURSIVE find_lru(_, _, _, _, _)
find_lru(lines, n, i, min_used, lru_index) ==
    IF i >= n THEN lru_index
    ELSE IF lines[i].last_used < min_used
         THEN find_lru(lines, n, i + 1, lines[i].last_used, i)
         ELSE find_lru(lines, n, i + 1, min_used, lru_index)

\* bump without use_counter++
bump_stuck(g) == g

\* line 133: use_counter++
bump(g) == [g EXCEPT !.use_counter = @ + 1]

\* hit_line without line->last_used = use_counter
hit_line_unstamped(g, si, h) == [g EXCEPT !.hit_count = @ + 1]

\* hit_line that stamps every line of the set
hit_line_stamp_set(g, si, h) ==
    LET lines == g.cache.sets[si] IN
    [g EXCEPT !.hit_count = @ + 1,
              !.cache.sets[si] =
                  [j \in DOMAIN lines |->
                      [lines[j] EXCEPT !.last_used = g.use_counter]]]

\* lines 151-152: a hit on line h of set si
hit_line(g, si, h) ==
    [g EXCEPT !.hit_count = @ + 1,
              !.cache.sets[si][h].last_used = g.use_counter]

\* fill_line without line->valid = 1
fill_line_invalid(g, si, f, tag) ==
    [g EXCEPT !.miss_count = @ + 1,
              !.cache.sets[si][f] =
                  [valid |-> 0, tag |-> tag, last_used |-> g.use_counter]]

\* fill_line that counts the fill as an eviction too
fill_line_evicts(g, si, f, tag) ==
    [g EXCEPT !.miss_count = @ + 1,
              !.eviction_count = @ + 1,
              !.cache.sets[si][f] =
                  [valid |-> 1, tag |-> tag, last_used |-> g.use_counter]]

\* lines 158, 164-166: a miss that fills the invalid line f of set si
fill_line(g, si, f, tag) ==
    [g EXCEPT !.miss_count = @ + 1,
              !.cache.sets[si][f] =
                  [valid |-> 1, tag |-> tag, last_used |-> g.use_counter]]

\* evict_line with miss_count++ left out of the eviction path
evict_line_uncounted(g, si, l, tag) ==
    [g EXCEPT !.eviction_count = @ + 1,
              !.cache.sets[si][l].tag = tag,
              !.cache.sets[si][l].last_used = g.use_counter]

\* evict_line without line->tag = tag
evict_line_stale_tag(g, si, l, tag) ==
    [g EXCEPT !.miss_count = @ + 1,
              !.eviction_count = @ + 1,
              !.cache.sets[si][l].last_used = g.use_counter]

\* evict_line that leaves the overwritten line invalid
evict_line_invalidate(g, si, l, tag) ==
    [g EXCEPT !.miss_count = @ + 1,
              !.eviction_count = @ + 1,
              !.cache.sets[si][l] =
                  [valid |-> 0, tag |-> tag, last_used |-> g.use_counter]]

\* lines 158, 172, 182-183: a miss that overwrites line l of set si
evict_line(g, si, l, tag) ==
    [g EXCEPT !.miss_count = @ + 1,
              !.eviction_count = @ + 1,
              !.cache.sets[si][l].tag = tag,
              !.cache.sets[si][l].last_used = g.use_counter]

\* access_data(addr) on globals g: the new globals, the return value, the
\* locals set_index and tag, the index of the line written and the tag that
\* line 182 overwrites (-1 when nothing is evicted)
access_data(g, a, ss, bb) ==
    LET g1    == bump(g)
        si    == set_index_of(a, ss, bb)
        tag   == tag_of(a, ss, bb)
        lines == g1.cache.sets[si]
        n     == g1.cache.E
        h     == find_hit(lines, n, tag, 0)
        f     == find_free(lines, n, 0)
        l     == find_lru(lines, n, 0, ULLONG_MAX, 0)
    IN  IF h # -1 THEN
            [g |-> hit_line(g1, si, h), ret |-> 0,
             set_index |-> si, tag |-> tag, index |-> h, evicted |-> -1]
        ELSE IF f # -1 THEN
            [g |-> fill_line(g1, si, f, tag), ret |-> 1,
             set_index |-> si, tag |-> tag, index |-> f, evicted |-> -1]
        ELSE
            [g |-> evict_line(g1, si, l, tag), ret |-> 2,
             set_index |-> si, tag |-> tag, index |-> l,
             evicted |-> lines[l].tag]

(* ------------------------------- output ------------------------------- *)
HexDigit == << "0", "1", "2", "3", "4", "5", "6", "7",
               "8", "9", "a", "b", "c", "d", "e", "f" >>

\* printf %llx
RECURSIVE Hex(_)
Hex(n) == IF n < 16 THEN << HexDigit[n + 1] >>
          ELSE Hex(n \div 16) \o << HexDigit[(n % 16) + 1] >>

\* printf %d
RECURSIVE Dec(_)
Dec(n) == IF n < 0 THEN << "-" >> \o Dec(0 - n)
          ELSE IF n < 10 THEN << HexDigit[n + 1] >>
          ELSE Dec(n \div 10) \o << HexDigit[(n % 10) + 1] >>

\* printf("%c %llx,%d", op, addr, size) under -v
Header(v, o, a, sz) ==
    IF v # 0 THEN << o, " " >> \o Hex(a) \o << "," >> \o Dec(sz) ELSE << >>

\* the outcome text printed under -v for a return value r
Outcome(v, r) ==
    IF v # 0
    THEN (IF r = 0 THEN << " hit" >> ELSE IF r = 1 THEN << " miss" >> ELSE << " miss eviction" >>)
    ELSE << >>

\* printf("\n") under -v
Newline(v) == IF v # 0 THEN << "\n" >> ELSE << >>

NoAcc == [ret |-> -1, set_index |-> 0, tag |-> 0, index |-> 0, evicted |-> -1]

(* ------------------------------- states ------------------------------- *)
\* the state main is in once init_cache has returned, for the arguments
\* -s ss -E EE -b bb -t path [-v]
Constructed(ss, EE, bb, v) ==
    /\ s = ss /\ E = EE /\ b = bb /\ verbose = v
    /\ tracefile = "trace"
    /\ cache = init_cache(ss, EE)
    /\ hit_count = 0 /\ miss_count = 0 /\ eviction_count = 0
    /\ use_counter = 0
    /\ pc = "open"
    /\ exit_status = -1
    /\ summary = << >>
    /\ stderr_msgs = << >>
    /\ given = {"s", "E", "b", "t"} \cup (IF v # 0 THEN {"v"} ELSE {})
    /\ nread = 0
    /\ conv = -1
    /\ op = "-"
    /\ addr = 0
    /\ rets = << >>
    /\ stdout_line = << >>
    /\ acc = NoAcc
    /\ nLoadStore = 0 /\ nModify = 0

NoShadow == << >>

Init ==
    /\ \E ss \in 0..MaxS, EE \in 1..MaxE, bb \in 0..MaxB, v \in {0, 1} :
           Constructed(ss, EE, bb, v)
    /\ shadow = NoShadow

(* ---------------------------- replay_trace ---------------------------- *)
\* the globals written back after an access_data call
SetGlobals(g) ==
    /\ cache' = g.cache
    /\ hit_count' = g.hit_count
    /\ miss_count' = g.miss_count
    /\ eviction_count' = g.eviction_count
    /\ use_counter' = g.use_counter

AccOf(r) == [ret |-> r.ret, set_index |-> r.set_index, tag |-> r.tag,
             index |-> r.index, evicted |-> r.evicted]

Config == << s, E, b, verbose, tracefile, given >>
Process == << exit_status, summary, stderr_msgs >>
Counters == << hit_count, miss_count, eviction_count, use_counter >>
Kinds == << nLoadStore, nModify >>
Iteration == << nread, conv, op, addr, rets, stdout_line, acc >>

\* fopen(tracefile, "r"): the file opens, or perror and exit(EXIT_FAILURE)
OpenTraceStep ==
    /\ pc = "open"
    /\ \E ok \in BOOLEAN :
        IF ok
        THEN /\ pc' = "loop"
             /\ UNCHANGED Process
        ELSE /\ pc' = "exit"
             /\ exit_status' = EXIT_FAILURE
             /\ stderr_msgs' = Append(stderr_msgs, "fopen tracefile")
             /\ UNCHANGED summary
    /\ UNCHANGED << Config, cache, Counters, Kinds, Iteration >>

\* a line on which sscanf converts c < 3 fields: continue
MalformedStep(c) ==
    /\ pc = "loop" /\ nread < MaxLines
    /\ conv' = c
    /\ op' = "-"
    /\ nread' = nread + 1
    /\ rets' = << >>
    /\ stdout_line' = << >>
    /\ addr' = 0
    /\ UNCHANGED << Config, Process, cache, Counters, Kinds, pc, acc >>

\* InstructionStep without the continue: the line falls into an access
InstructionStepAccess(a, sz) ==
    /\ pc = "loop" /\ nread < MaxLines
    /\ LET r == access_data(Globals, a, s, b) IN
        /\ SetGlobals(r.g)
        /\ acc' = AccOf(r)
    /\ conv' = 3
    /\ op' = "I"
    /\ nread' = nread + 1
    /\ rets' = << >>
    /\ stdout_line' = << >>
    /\ addr' = 0
    /\ UNCHANGED << Config, Process, Kinds, pc >>

\* an "I" line: continue
InstructionStep(a, sz) ==
    /\ pc = "loop" /\ nread < MaxLines
    /\ conv' = 3
    /\ op' = "I"
    /\ nread' = nread + 1
    /\ rets' = << >>
    /\ stdout_line' = << >>
    /\ addr' = 0
    /\ UNCHANGED << Config, Process, cache, Counters, Kinds, pc, acc >>

\* an "L" or "S" line: one access
LoadStoreStep(o, a, sz) ==
    /\ pc = "loop" /\ nread < MaxLines
    /\ ShiftDefined(s, b)
    /\ LET r == access_data(Globals, a, s, b) IN
        /\ conv' = 3
        /\ op' = o
        /\ SetGlobals(r.g)
        /\ acc' = AccOf(r)
        /\ rets' = << r.ret >>
        /\ stdout_line' = Header(verbose, o, a, sz) \o Outcome(verbose, r.ret)
                          \o Newline(verbose)
    /\ nLoadStore' = nLoadStore + 1
    /\ nread' = nread + 1
    /\ addr' = 0
    /\ UNCHANGED << Config, Process, nModify, pc >>

\* an "M" line, first access (the load)
ModifyLoadStep(a, sz) ==
    /\ pc = "loop" /\ nread < MaxLines
    /\ ShiftDefined(s, b)
    /\ LET r == access_data(Globals, a, s, b) IN
        /\ conv' = 3
        /\ op' = "M"
        /\ addr' = a
        /\ SetGlobals(r.g)
        /\ acc' = AccOf(r)
        /\ rets' = << r.ret >>
        /\ stdout_line' = Header(verbose, "M", a, sz) \o Outcome(verbose, r.ret)
    /\ nread' = nread + 1
    /\ pc' = "store"
    /\ UNCHANGED << Config, Process, Kinds >>

\* an "L", "S" or "M" line when b or b + s is 64 or more: the shifts of
\* access_data are undefined, and nothing is known of the run from here on
UndefinedShiftStep(o, a, sz) ==
    /\ pc = "loop" /\ nread < MaxLines
    /\ ~ShiftDefined(s, b)
    /\ conv' = 3
    /\ op' = o
    /\ nread' = nread + 1
    /\ stdout_line' = Header(verbose, o, a, sz)
    /\ pc' = "undefined"
    /\ UNCHANGED << Config, Process, cache, Counters, Kinds, addr, rets, acc >>

\* ModifyStoreStep without the second access_data call
ModifyStoreStepNoAccess ==
    /\ pc = "store"
    /\ nModify' = nModify + 1
    /\ stdout_line' = stdout_line \o Newline(verbose)
    /\ addr' = 0
    /\ pc' = "loop"
    /\ UNCHANGED << Config, Process, cache, Counters, nLoadStore, nread, conv,
                    op, rets, acc >>

\* an "M" line, second access (the store) to the same address
ModifyStoreStep ==
    /\ pc = "store"
    /\ LET r == access_data(Globals, addr, s, b) IN
        /\ SetGlobals(r.g)
        /\ acc' = AccOf(r)
        /\ rets' = Append(rets, r.ret)
        /\ stdout_line' = stdout_line \o Outcome(verbose, r.ret) \o Newline(verbose)
    /\ nModify' = nModify + 1
    /\ addr' = 0
    /\ pc' = "loop"
    /\ UNCHANGED << Config, Process, nLoadStore, nread, conv, op >>

\* a line with three fields whose kind is none of I, L, S, M
OtherStep(o, a, sz) ==
    /\ pc = "loop" /\ nread < MaxLines
    /\ conv' = 3
    /\ op' = o
    /\ stdout_line' = Header(verbose, o, a, sz) \o Newline(verbose)
    /\ nread' = nread + 1
    /\ rets' = << >>
    /\ addr' = 0
    /\ UNCHANGED << Config, Process, cache, Counters, Kinds, pc, acc >>

\* EndOfTraceStep that passes the counts to printSummary in another order
EndOfTraceStepSwapped ==
    /\ pc = "loop"
    /\ summary' = << miss_count, hit_count, eviction_count >>
    /\ cache' = [cache EXCEPT !.sets = << >>]
    /\ exit_status' = EXIT_SUCCESS
    /\ pc' = "exit"
    /\ UNCHANGED << Config, stderr_msgs, Counters, Kinds, Iteration >>

\* fgets returns NULL: fclose, return to main, and the rest of main:
\* printSummary(hit_count, miss_count, eviction_count); free_cache();
\* free(tracefile); return 0
EndOfTraceStep ==
    /\ pc = "loop"
    /\ summary' = << hit_count, miss_count, eviction_count >>
    /\ cache' = [cache EXCEPT !.sets = << >>]
    /\ exit_status' = EXIT_SUCCESS
    /\ pc' = "exit"
    /\ UNCHANGED << Config, stderr_msgs, Counters, Kinds, Iteration >>

(* ----------------------- the single run: Spec ------------------------- *)
OpenTrace == OpenTraceStep /\ UNCHANGED shadow

ReplayMalformed == \E c \in 0..2 : MalformedStep(c) /\ UNCHANGED shadow

ReplayInstruction ==
    \E a \in Addrs, sz \in Sizes : InstructionStep(a, sz) /\ UNCHANGED shadow

ReplayLoadStore ==
    \E o \in {"L", "S"}, a \in Addrs, sz \in Sizes :
        LoadStoreStep(o, a, sz) /\ UNCHANGED shadow

ReplayModifyLoad ==
    \E a \in Addrs, sz \in Sizes : ModifyLoadStep(a, sz) /\ UNCHANGED shadow

ReplayModifyStore == ModifyStoreStep /\ UNCHANGED shadow

ReplayOther ==
    \E o \in Ops \ KnownOps, a \in Addrs, sz \in Sizes :
        OtherStep(o, a, sz) /\ UNCHANGED shadow

EndOfTrace == EndOfTraceStep /\ UNCHANGED shadow

Replay ==
    \/ ReplayMalformed
    \/ ReplayInstruction
    \/ ReplayLoadStore
    \/ ReplayModifyLoad
    \/ ReplayModifyStore
    \/ ReplayOther
    \/ EndOfTrace

Next ==
    \/ OpenTrace
    \/ Replay

Spec == Init /\ [][Next]_vars

\* the process is sequential and always takes its next step: a run of
\* main does not stop before its return or exit
SpecFair == Spec /\ WF_vars(Next)

(* --------------------- main from the command line -------------------- *)
IsDigit(c) == c \in {"0", "1", "2", "3", "4", "5", "6", "7", "8", "9"}
DigitVal(c) == CHOOSE d \in 0..9 : HexDigit[d + 1] = c

\* the value of the leading digits of str, continuing from v
RECURSIVE atoi_digits(_, _)
atoi_digits(str, v) ==
    IF str = << >> \/ ~IsDigit(Head(str)) THEN v
    ELSE atoi_digits(Tail(str), 10 * v + DigitVal(Head(str)))

\* atoi(optarg): optarg is a sequence of characters
atoi(str) ==
    IF str # << >> /\ Head(str) = "-" THEN 0 - atoi_digits(Tail(str), 0)
    ELSE atoi_digits(str, 0)

\* the option arguments tried on the command line
SArgs == { Dec(n) : n \in (-1)..MaxS }
             \cup { Dec(SIZE_T_BITS - 3), Dec(SIZE_T_BITS), << "x" >> }
EArgs == { Dec(n) : n \in (-1)..MaxE } \cup { << "x" >> }
BArgs == { Dec(n) : n \in (-1)..MaxB } \cup { Dec(SIZE_T_BITS), << "x" >> }

\* the state at the entry of main: the globals are zero-initialised
InitMain ==
    /\ s = 0 /\ E = 0 /\ b = 0 /\ verbose = 0
    /\ tracefile = "NULL"
    /\ cache = NoCache
    /\ hit_count = 0 /\ miss_count = 0 /\ eviction_count = 0
    /\ use_counter = 0
    /\ pc = "getopt"
    /\ exit_status = -1
    /\ summary = << >>
    /\ stderr_msgs = << >>
    /\ given = {}
    /\ nread = 0
    /\ conv = -1
    /\ op = "-"
    /\ addr = 0
    /\ rets = << >>
    /\ stdout_line = << >>
    /\ acc = NoAcc
    /\ nLoadStore = 0 /\ nModify = 0
    /\ shadow = NoShadow

Run == << cache, Counters, Kinds, Iteration, shadow >>

\* the getopt loop of main over a command line that carries the options
\* opts ("h" stands for -h or an unrecognised flag) with arguments sa, ea, ba;
\* on "h" the process exits and what earlier options assigned is never read
ParseArgs ==
    /\ pc = "getopt"
    /\ \E opts \in SUBSET {"s", "E", "b", "t", "v", "h"},
          sa \in SArgs, ea \in EArgs, ba \in BArgs :
        /\ given' = opts
        /\ IF "h" \in opts
           THEN /\ stderr_msgs' = Append(stderr_msgs, "Usage")
                /\ exit_status' = EXIT_FAILURE
                /\ pc' = "exit"
                /\ UNCHANGED << s, E, b, verbose, tracefile >>
           ELSE /\ s' = IF "s" \in opts THEN atoi(sa) ELSE s
                /\ E' = IF "E" \in opts THEN atoi(ea) ELSE E
                /\ b' = IF "b" \in opts THEN atoi(ba) ELSE b
                /\ tracefile' = IF "t" \in opts THEN "trace" ELSE tracefile
                /\ verbose' = IF "v" \in opts THEN 1 ELSE verbose
                /\ pc' = "check"
                /\ UNCHANGED << exit_status, stderr_msgs >>
    /\ UNCHANGED << summary, Run >>

\* CheckArgs that tests only E and the trace file name
CheckArgsLax ==
    /\ pc = "check"
    /\ IF E <= 0 \/ tracefile = "NULL"
       THEN /\ stderr_msgs' = stderr_msgs \o << "Missing required args", "Usage" >>
            /\ exit_status' = EXIT_FAILURE
            /\ pc' = "exit"
       ELSE /\ pc' = "init"
            /\ UNCHANGED << exit_status, stderr_msgs >>
    /\ UNCHANGED << Config, summary, Run >>

\* the argument check of main, lines 258-262
CheckArgs ==
    /\ pc = "check"
    /\ IF s < 0 \/ E <= 0 \/ b < 0 \/ tracefile = "NULL"
       THEN /\ stderr_msgs' = stderr_msgs \o << "Missing required args", "Usage" >>
            /\ exit_status' = EXIT_FAILURE
            /\ pc' = "exit"
       ELSE /\ pc' = "init"
            /\ UNCHANGED << exit_status, stderr_msgs >>
    /\ UNCHANGED << Config, summary, Run >>

\* init_cache(): s too large or a failed malloc ends the process.  When
\* sizeof(set_t) * S wraps to 0, malloc(0) returns NULL or a pointer to no
\* storage, and the loop that then writes cache.sets[i].lines is undefined
InitCache ==
    /\ pc = "init"
    /\ IF s >= SIZE_T_BITS
       THEN /\ stderr_msgs' = Append(stderr_msgs, "Error: s is too large")
            /\ exit_status' = EXIT_FAILURE
            /\ pc' = "exit"
            /\ UNCHANGED cache
       ELSE \E ok \in BOOLEAN :
              IF ~ok
              THEN /\ stderr_msgs' = Append(stderr_msgs, "malloc")
                   /\ exit_status' = EXIT_FAILURE
                   /\ pc' = "exit"
                   /\ UNCHANGED cache
              ELSE IF Zero64(malloc_sets_size(s))
              THEN /\ pc' = "undefined"
                   /\ UNCHANGED << cache, exit_status, stderr_msgs >>
              ELSE /\ cache' = init_cache(s, E)
                   /\ pc' = "open"
                   /\ UNCHANGED << exit_status, stderr_msgs >>
    /\ UNCHANGED << Config, summary, Counters, Kinds, Iteration, shadow >>

\* an access line of the trace under an undefined shift
ReplayUndefinedShift ==
    \E o \in {"L", "S", "M"}, a \in Addrs, sz \in Sizes :
        UndefinedShiftStep(o, a, sz) /\ UNCHANGED shadow

NextMain ==
    \/ ParseArgs
    \/ CheckArgs
    \/ InitCache
    \/ OpenTrace
    \/ Replay
    \/ ReplayUndefinedShift

SpecMain == InitMain /\ [][NextMain]_vars

(* ------------- two runs side by side: SpecPair (offset, size) ---------- *)
\* the second run: its globals, the results and the output of its iteration
\* and its local addr
PairShadow(ss, EE) ==
    [g |-> [cache |-> init_cache(ss, EE), hit_count |-> 0, miss_count |-> 0,
            eviction_count |-> 0, use_counter |-> 0],
     rets |-> << >>, stdout_line |-> << >>, addr |-> 0]

\* the configurations that have block-offset bits
InitPair ==
    \E ss \in 0..MaxS, EE \in 1..MaxE, bb \in 1..MaxB, v \in {0, 1} :
        /\ Constructed(ss, EE, bb, v)
        /\ shadow = PairShadow(ss, EE)

\* an iteration of the second run that makes no access
ShadowSkip(sh, out) == [sh EXCEPT !.rets = << >>, !.stdout_line = out, !.addr = 0]

\* an access of the second run, appended to what the iteration has so far
ShadowAccess(sh, a, out) ==
    LET r == access_data(sh.g, a, s, b) IN
    [sh EXCEPT !.g = r.g,
               !.rets = Append(@, r.ret),
               !.stdout_line = @ \o out \o Outcome(verbose, r.ret)]

\* the two lines agree on every address bit above the low b bits
SameBlock(a1, a2) == Shr(a1, b) = Shr(a2, b)

PairMalformed ==
    \E c \in 0..2 : MalformedStep(c) /\ shadow' = ShadowSkip(shadow, << >>)

PairInstruction ==
    \E a1 \in Addrs, sz1 \in Sizes :
        InstructionStep(a1, sz1) /\ shadow' = ShadowSkip(shadow, << >>)

PairLoadStore ==
    \E o \in {"L", "S"}, a1 \in Addrs, a2 \in Addrs, sz1 \in Sizes, sz2 \in Sizes :
        /\ SameBlock(a1, a2)
        /\ LoadStoreStep(o, a1, sz1)
        /\ shadow' = [ShadowAccess(ShadowSkip(shadow, << >>), a2,
                                   Header(verbose, o, a2, sz2))
                        EXCEPT !.stdout_line = @ \o Newline(verbose)]

PairModifyLoad ==
    \E a1 \in Addrs, a2 \in Addrs, sz1 \in Sizes, sz2 \in Sizes :
        /\ SameBlock(a1, a2)
        /\ ModifyLoadStep(a1, sz1)
        /\ shadow' = [ShadowAccess(ShadowSkip(shadow, << >>), a2,
                                   Header(verbose, "M", a2, sz2))
                        EXCEPT !.addr = a2]

PairModifyStore ==
    /\ ModifyStoreStep
    /\ shadow' = [ShadowAccess(shadow, shadow.addr, << >>)
                    EXCEPT !.stdout_line = @ \o Newline(verbose), !.addr = 0]

PairOther ==
    \E o \in Ops \ KnownOps, a1 \in Addrs, a2 \in Addrs, sz1 \in Sizes, sz2 \in Sizes :
        /\ SameBlock(a1, a2)
        /\ OtherStep(o, a1, sz1)
        /\ shadow' = ShadowSkip(shadow, Header(verbose, o, a2, sz2) \o Newline(verbose))

NextPair ==
    \/ OpenTrace
    \/ PairMalformed
    \/ PairInstruction
    \/ PairLoadStore
    \/ PairModifyLoad
    \/ PairModifyStore
    \/ PairOther
    \/ EndOfTrace

SpecPair == InitPair /\ [][NextPair]_vars

(* ------------ the cache beside a reference LRU: SpecRef ---------------- *)
\* the reference: for each set the tags it holds, most recently touched
\* first, and the outcome and evicted tag of its latest access
RefShadow(ss) ==
    [lists |-> [i \in 0..(2 ^ ss - 1) |-> << >>], ret |-> -1, evicted |-> -1]

InitRef ==
    \E ss \in 0..MaxS, EE \in 1..MaxE, bb \in 0..MaxB, v \in {0, 1} :
        /\ Constructed(ss, EE, bb, v)
        /\ shadow = RefShadow(ss)

Range(f) == { f[x] : x \in DOMAIN f }

\* an access of address a in the reference
RefAccess(sh, a) ==
    LET si   == (a \div (2 ^ b)) % (2 ^ s)
        tag  == a \div (2 ^ (b + s))
        list == sh.lists[si]
    IN  IF tag \in Range(list) THEN
            [lists |-> [sh.lists EXCEPT ![si] =
                           << tag >> \o SelectSeq(list, LAMBDA x : x # tag)],
             ret |-> 0, evicted |-> -1]
        ELSE IF Len(list) < E THEN
            [lists |-> [sh.lists EXCEPT ![si] = << tag >> \o list],
             ret |-> 1, evicted |-> -1]
        ELSE
            [lists |-> [sh.lists EXCEPT ![si] =
                           << tag >> \o SubSeq(list, 1, Len(list) - 1)],
             ret |-> 2, evicted |-> list[Len(list)]]

RefLoadStore ==
    \E o \in {"L", "S"}, a \in Addrs, sz \in Sizes :
        LoadStoreStep(o, a, sz) /\ shadow' = RefAccess(shadow, a)

RefModifyLoad ==
    \E a \in Addrs, sz \in Sizes :
        ModifyLoadStep(a, sz) /\ shadow' = RefAccess(shadow, a)

RefModifyStore == ModifyStoreStep /\ shadow' = RefAccess(shadow, addr)

NextRef ==
    \/ OpenTrace
    \/ ReplayMalformed
    \/ ReplayInstruction
    \/ RefLoadStore
    \/ RefModifyLoad
    \/ RefModifyStore
    \/ ReplayOther
    \/ EndOfTrace

SpecRef == InitRef /\ [][NextRef]_vars

(* ------------- a direct-mapped cache under loads: SpecDM --------------- *)
\* E = 1 and a trace of L lines; shadow is the sequence of the addresses
\* accessed so far
InitDM ==
    \E ss \in 0..MaxS, bb \in 0..MaxB, v \in {0, 1} :
        /\ Constructed(ss, 1, bb, v)
        /\ shadow = << >>

DMLoad ==
    \E a \in Addrs, sz \in Sizes :
        LoadStoreStep("L", a, sz) /\ shadow' = Append(shadow, a)

NextDM ==
    \/ OpenTrace
    \/ DMLoad
    \/ EndOfTrace

SpecDM == InitDM /\ [][NextDM]_vars

(* ------------------------- properties of Spec ------------------------- *)
\* this step is the call access_data(a)
AccessOf(a) ==
    \/ \E o \in {"L", "S"}, sz \in Sizes : LoadStoreStep(o, a, sz)
    \/ \E sz \in Sizes : ModifyLoadStep(a, sz)
    \/ ModifyStoreStep /\ addr = a

\* the decomposition of section 3 of the specification
SetIndexOf(a) == (a \div (2 ^ b)) % (2 ^ s)
TagOf(a) == a \div (2 ^ (b + s))

\* the lines whose fields this step changes
ChangedLines ==
    { ij \in (0..(cache.S - 1)) \X (0..(cache.E - 1)) :
        cache'.sets[ij[1]][ij[2]] # cache.sets[ij[1]][ij[2]] }

\* the line of least last_used, the lowest index among equals
LeastRecent(lines) ==
    CHOOSE j \in DOMAIN lines :
        \A k \in DOMAIN lines :
            \/ lines[j].last_used < lines[k].last_used
            \/ lines[j].last_used = lines[k].last_used /\ j <= k

\* C1: whenever access_data returns 2, the one line it overwrites is the
\* line of the target set whose last_used was least among the set's E lines
\* just before the call, the lowest index among lines sharing that minimum.
C1_EvictsLeastRecent ==
    [][\A a \in Addrs :
          (AccessOf(a) /\ acc'.ret = 2) =>
              ChangedLines =
                  { << SetIndexOf(a), LeastRecent(cache.sets[SetIndexOf(a)]) >> }]_vars

\* an eviction has just overwritten line 1 of a two-line set
C1_Witness == acc.ret = 2 /\ acc.index = 1 /\ E = 2 /\ use_counter >= 4

\* C3: after any prefix of the trace, hit_count + miss_count is the number
\* of access_data calls made, which is twice the Modify lines plus the Load
\* and Store lines processed; Instruction lines contribute nothing.
C3_CounterConservation ==
    pc # "store" =>
        /\ hit_count + miss_count = use_counter
        /\ use_counter = 2 * nModify + nLoadStore

\* Modify, Load/Store and Instruction lines have all been replayed
C3_Witness ==
    /\ nModify >= 1 /\ nLoadStore >= 1
    /\ conv = 3 /\ op = "I" /\ pc = "loop"
    /\ hit_count >= 1 /\ miss_count >= 1

\* what C4 says of the step that is the call access_data(a)
C4_Body(a) ==
    LET lines == cache.sets[SetIndexOf(a)]
        match == \E j \in DOMAIN lines : lines[j].valid # 0 /\ lines[j].tag = TagOf(a)
        free  == { j \in DOMAIN lines : lines[j].valid = 0 }
        first == CHOOSE j \in free : \A k \in free : j <= k
    IN  /\ acc'.ret = 0 <=> match
        /\ acc'.ret = 1 <=> (~match /\ free # {})
        /\ acc'.ret = 2 <=> (~match /\ free = {})
        /\ acc'.ret = 1 =>
              /\ ChangedLines = { << SetIndexOf(a), first >> }
              /\ cache'.sets[SetIndexOf(a)][first] =
                    [valid |-> 1, tag |-> TagOf(a), last_used |-> use_counter']

\* C4: the outcome of access_data(a) is fixed by the target set as it was
\* just before the call: 0 exactly when a valid line holds the tag; 1 exactly
\* when none does and some line is invalid, and then the lowest-index invalid
\* line is the one filled; 2 exactly when none does and all E lines are valid.
C4_OutcomeFromSetState ==
    [][\A a \in Addrs : AccessOf(a) => C4_Body(a)]_vars

\* a miss has just filled line 1 while line 0 was already valid
C4_Witness ==
    /\ acc.ret = 1 /\ acc.index = 1
    /\ cache.sets # << >>
    /\ cache.sets[acc.set_index][0].valid = 1

\* C5: in every reachable state eviction_count <= miss_count.
C5_EvictionsAtMostMisses == eviction_count <= miss_count

\* several evictions have happened
C5_Witness == eviction_count >= 2 /\ hit_count >= 1

\* C6: whenever the first access of a Modify line misses, with or without
\* eviction, the second access of that line is a hit.
C6_ModifySecondHits ==
    (op = "M" /\ Len(rets) = 2 /\ rets[1] # 0) => rets[2] = 0

\* a Modify line whose load evicted and whose store has been made
C6_Witness == op = "M" /\ pc = "loop" /\ Len(rets) = 2 /\ rets[1] = 2

\* C8: processing an Instruction line, a malformed line or a line of
\* unknown kind makes no access_data call and leaves every line of the
\* cache, use_counter, hit_count, miss_count and eviction_count unchanged.
C8_SkippedLinesChangeNothing ==
    [][(nread' = nread + 1 /\ (conv' # 3 \/ op' \notin {"L", "S", "M"})) =>
          UNCHANGED << cache, use_counter, hit_count, miss_count, eviction_count >>]_vars

\* an Instruction line has been skipped while the cache held data
C8_Witness ==
    /\ conv = 3 /\ op = "I" /\ pc = "loop"
    /\ use_counter >= 2 /\ miss_count >= 1

\* the outcome texts in what an iteration printed
OutcomeTexts(line) ==
    SelectSeq(line, LAMBDA x : x \in {" hit", " miss", " miss eviction"})

RECURSIVE TextsOf(_)
TextsOf(rs) ==
    IF rs = << >> THEN << >> ELSE Outcome(1, Head(rs)) \o TextsOf(Tail(rs))

\* C9: under -v an annotation is printed for exactly the Load, Store and
\* Modify lines, with one outcome for Load/Store and two for Modify in call
\* order; Instruction, malformed and unknown-kind lines print nothing.
C9_AnnotatesOnlyRecognized ==
    (verbose # 0 /\ pc = "loop" /\ nread > 0) =>
        IF conv = 3 /\ op \in {"L", "S", "M"}
        THEN /\ stdout_line # << >>
             /\ Len(rets) = (IF op = "M" THEN 2 ELSE 1)
             /\ OutcomeTexts(stdout_line) = TextsOf(rets)
        ELSE stdout_line = << >>

(* ----------------------- properties of SpecRef ------------------------ *)
\* the tags held in the valid lines of a set
ValidTags(lines) == { lines[j].tag : j \in { k \in DOMAIN lines : lines[k].valid # 0 } }

\* C2: beside a reference that keeps for each set a recency-ordered list of
\* at most E tags, after every access the tags in the valid lines of each set
\* are the tags of the reference list, the outcome is the same, and the tag
\* evicted is the reference's least recently touched tag.
C2_RefinesReferenceLRU ==
    cache.sets # << >> =>
        /\ \A i \in DOMAIN cache.sets :
              /\ ValidTags(cache.sets[i]) = Range(shadow.lists[i])
              /\ Len(shadow.lists[i]) <= E
        /\ acc.ret = shadow.ret
        /\ acc.evicted = shadow.evicted

\* an eviction that followed a hit, so that recency and fill order differ
C2_Witness ==
    /\ shadow.ret = 2 /\ acc.ret = 2 /\ acc.index = 1
    /\ hit_count >= 1 /\ E = 2

(* ----------------------- properties of SpecPair ----------------------- *)
\* C7: two traces with the same kinds and the same addr >> b, whatever
\* their low b address bits and sizes, give the same access outcomes and
\* the same (hits, misses, evictions).
C7_OffsetAndSizeIrrelevant ==
    /\ shadow.rets = rets
    /\ shadow.g.hit_count = hit_count
    /\ shadow.g.miss_count = miss_count
    /\ shadow.g.eviction_count = eviction_count

\* both runs are done; the last line differed in offset bits and in size
C7_Witness ==
    /\ pc = "exit" /\ exit_status = EXIT_SUCCESS
    /\ verbose = 1 /\ b >= 1
    /\ Len(stdout_line) >= 6
    /\ stdout_line[3] # shadow.stdout_line[3]
    /\ stdout_line[5] # shadow.stdout_line[5]
    /\ eviction_count >= 1 /\ hit_count >= 1

(* ----------------------- properties of SpecMain ----------------------- *)
\* C10: when any of -s, -E, -b, -t is missing from the command line the
\* program prints a diagnostic and usage and exits with failure status,
\* without constructing the cache, replaying the trace or reporting a summary.
C10_MissingArgumentFails ==
    (pc \notin {"getopt", "check"} /\ ~({"s", "E", "b", "t"} \subseteq given)) =>
        /\ pc = "exit"
        /\ exit_status = EXIT_FAILURE
        /\ stderr_msgs # << >>
        /\ cache = NoCache
        /\ use_counter = 0
        /\ summary = << >>

\* the process has ended with failure status, no access made, no summary
FailedBeforeReplay ==
    /\ pc = "exit"
    /\ exit_status = EXIT_FAILURE
    /\ stderr_msgs # << >>
    /\ use_counter = 0
    /\ acc = NoAcc
    /\ summary = << >>

\* C11: on every configuration error (-h or an unrecognised flag, s < 0,
\* E <= 0, b < 0, s of at least the width of size_t, a trace file that does
\* not open) the process, once past the point that detects the error, has
\* terminated with failure status, has made no access call and has reported
\* no summary.
C11_ConfigurationErrorFails ==
    /\ ("h" \in given /\ pc # "getopt") => FailedBeforeReplay
    /\ ((s < 0 \/ E <= 0 \/ b < 0) /\ pc \notin {"getopt", "check"})
           => FailedBeforeReplay
    /\ (s >= SIZE_T_BITS /\ pc \notin {"getopt", "check", "init"})
           => FailedBeforeReplay
    /\ (\E k \in DOMAIN stderr_msgs : stderr_msgs[k] = "fopen tracefile")
           => FailedBeforeReplay
    /\ exit_status = EXIT_FAILURE => FailedBeforeReplay

\* init_cache has rejected an s as wide as size_t that main's check let pass
C11_Witness ==
    /\ s >= SIZE_T_BITS /\ E > 0 /\ b >= 0 /\ tracefile # "NULL"
    /\ pc = "exit" /\ exit_status = EXIT_FAILURE
    /\ stderr_msgs = << "Error: s is too large" >>

(* ----------------------- properties of SpecFair ----------------------- *)
\* C12: from a constructed cache and an opened, finite trace the run comes
\* to the end of input and reports the summary; the summary is reported
\* once, as the last step of the run, and carries hit_count, miss_count and
\* eviction_count in that order as they stand after the last trace line,
\* with exit code 0; the lines are consumed one at a time in trace order.
C12_SummaryOnceAtEnd ==
    /\ [](summary # << >> =>
            /\ summary = << hit_count, miss_count, eviction_count >>
            /\ pc = "exit"
            /\ exit_status = EXIT_SUCCESS)
    /\ [][summary = << >> /\ nread' \in {nread, nread + 1}]_vars
    /\ (pc = "loop") ~> (summary # << >>)

\* a run has ended after MaxLines lines with each of the three counts different
C12_Witness ==
    /\ pc = "exit" /\ exit_status = EXIT_SUCCESS
    /\ nread = MaxLines
    /\ summary = << hit_count, miss_count, eviction_count >>
    /\ hit_count # miss_count
    /\ miss_count # eviction_count
    /\ hit_count # eviction_count
    /\ eviction_count >= 1

(* ------------------------ properties of SpecDM ------------------------ *)
\* the earlier accesses of the trace that mapped to the set of access k
EarlierInSet(trace, k) ==
    { j \in 1..(k - 1) : SetIndexOf(trace[j]) = SetIndexOf(trace[k]) }

Latest(js) == CHOOSE j \in js : \A i \in js : i <= j

\* the outcome of access k as the history of the trace determines it
HistoryOutcome(trace, k) ==
    LET js == EarlierInSet(trace, k) IN
    IF js = {} THEN 1
    ELSE IF TagOf(trace[Latest(js)]) = TagOf(trace[k]) THEN 0
    ELSE 2

HistoryCount(trace, r) ==
    Cardinality({ k \in 1..Len(trace) : HistoryOutcome(trace, k) = r })

\* C13: with E = 1 and a trace of loads, an access hits exactly when the most
\* recent earlier access to its set had its tag, misses without eviction
\* exactly when no earlier access mapped to its set, and misses with eviction
\* otherwise; the counts are the numbers of such accesses, and the three
\* traces L 0, L 0 and L 0, L 1 (s = 0, b = 0) and L 0, L 2, L 0 (s = 1,
\* b = 0) end with 1/1/0, 0/2/1 and 0/3/2 hits/misses/evictions.
C13_DirectMappedByHistory ==
    /\ shadow # << >> => acc.ret = HistoryOutcome(shadow, Len(shadow))
    /\ hit_count = HistoryCount(shadow, 0)
    /\ miss_count = HistoryCount(shadow, 1) + HistoryCount(shadow, 2)
    /\ eviction_count = HistoryCount(shadow, 2)
    /\ (s = 0 /\ b = 0 /\ shadow = << 0, 0 >>) =>
           << hit_count, miss_count, eviction_count >> = << 1, 1, 0 >>
    /\ (s = 0 /\ b = 0 /\ shadow = << 0, 1 >>) =>
           << hit_count, miss_count, eviction_count >> = << 0, 2, 1 >>
    /\ (s = 1 /\ b = 0 /\ shadow = << 0, 2, 0 >>) =>
           << hit_count, miss_count, eviction_count >> = << 0, 3, 2 >>

\* the third example trace has run to its end
C13_Witness ==
    /\ s = 1 /\ b = 0 /\ shadow = << 0, 2, 0 >>
    /\ pc = "exit" /\ summary = << 0, 3, 2 >>

(* -------------------- properties of Spec, continued -------------------- *)
\* the cache is allocated: init_cache has run and free_cache has not
Allocated == cache.sets # << >>

SetIndices == 0..(cache.S - 1)
LineIndices == 0..(cache.E - 1)

\* C15: at every point of a run no two valid lines of one set hold the
\* same tag.
C15_TagsUniquePerSet ==
    Allocated =>
        \A i \in SetIndices : \A j \in LineIndices, k \in LineIndices :
            (/\ j # k
             /\ cache.sets[i][j].valid = 1
             /\ cache.sets[i][k].valid = 1)
                => cache.sets[i][j].tag # cache.sets[i][k].tag

\* a two-line set is full after an eviction into it and a hit
C15_Witness ==
    /\ Allocated /\ E = 2
    /\ acc.ret = 2
    /\ hit_count >= 1
    /\ \A j \in LineIndices : cache.sets[acc.set_index][j].valid = 1

\* C17: every line is invalid right after construction, and while the
\* cache is allocated a line that is valid stays valid in every later state.
C17_ValidityMonotone ==
    /\ [](pc = "open" =>
            \A i \in SetIndices, j \in LineIndices : cache.sets[i][j].valid = 0)
    /\ [][Allocated' =>
            \A i \in SetIndices, j \in LineIndices :
                cache.sets[i][j].valid = 1 => cache'.sets[i][j].valid = 1]_vars

\* a line that was valid has been overwritten by an eviction and is valid
C17_Witness ==
    /\ Allocated
    /\ acc.ret = 2
    /\ cache.sets[acc.set_index][acc.index].valid = 1
    /\ cache.sets[acc.set_index][acc.index].tag = acc.tag
    /\ acc.evicted # acc.tag

\* C18: every access_data call changes the fields of exactly one line, a
\* line of the set the address selects, and leaves every other line of the
\* cache as it was; on a hit that line keeps its tag and valid bit, and
\* miss_count and eviction_count keep their values.
C18_AccessWritesOneLine ==
    [][\A a \in Addrs :
          AccessOf(a) =>
              \E j \in LineIndices :
                  /\ ChangedLines = { << SetIndexOf(a), j >> }
                  /\ acc'.ret = 0 =>
                        /\ cache'.sets[SetIndexOf(a)][j].tag
                               = cache.sets[SetIndexOf(a)][j].tag
                        /\ cache'.sets[SetIndexOf(a)][j].valid
                               = cache.sets[SetIndexOf(a)][j].valid
                        /\ miss_count' = miss_count
                        /\ eviction_count' = eviction_count]_vars

\* a hit in a full two-line set while the other set holds a valid line
C18_Witness ==
    /\ Allocated /\ s = 1 /\ E = 2
    /\ acc.ret = 0
    /\ \A j \in LineIndices : cache.sets[acc.set_index][j].valid = 1
    /\ \E j \in LineIndices : cache.sets[1 - acc.set_index][j].valid = 1

\* the lines of the cache, as << set index, line index >>
AllLines == SetIndices \X LineIndices
LineAt(ij) == cache.sets[ij[1]][ij[2]]

\* C19: the last_used values of the valid lines of the whole cache are
\* pairwise distinct and lie between 1 and use_counter; after an access the
\* line it touched has last_used = use_counter, above that of every other
\* line; so in a full set the least last_used belongs to one line only and
\* the lowest-index tie-break of the eviction scan has nothing to decide.
C19_TimestampsDistinct ==
    Allocated =>
        /\ \A x \in AllLines :
              LineAt(x).valid = 1 =>
                  /\ LineAt(x).last_used \in 1..use_counter
                  /\ \A y \in AllLines :
                        (y # x /\ LineAt(y).valid = 1)
                            => LineAt(y).last_used # LineAt(x).last_used
        /\ acc # NoAcc =>
              /\ LineAt(<< acc.set_index, acc.index >>).last_used = use_counter
              /\ \A y \in AllLines :
                    y # << acc.set_index, acc.index >>
                        => LineAt(y).last_used < use_counter
        /\ \A i \in SetIndices :
              (\A j \in LineIndices : cache.sets[i][j].valid = 1) =>
                  Cardinality({ j \in LineIndices :
                      \A k \in LineIndices :
                          cache.sets[i][j].last_used
                              <= cache.sets[i][k].last_used }) = 1

\* both lines of a two-line set are valid after an eviction into line 1
C19_Witness ==
    /\ Allocated /\ E = 2
    /\ acc.ret = 2 /\ acc.index = 1
    /\ \A j \in LineIndices : cache.sets[acc.set_index][j].valid = 1
    /\ use_counter = MaxLines

\* the valid lines of the cache, and those of set i
ValidLines == { x \in AllLines : LineAt(x).valid = 1 }
ValidLinesOf(i) == { j \in LineIndices : cache.sets[i][j].valid = 1 }

\* C20: at every point of a run miss_count - eviction_count is the number of
\* valid lines of the cache, which is at most S * E, and no set holds more
\* than E valid lines.
C20_MissesMinusEvictionsAreValidLines ==
    Allocated =>
        /\ miss_count - eviction_count = Cardinality(ValidLines)
        /\ miss_count - eviction_count <= cache.S * cache.E
        /\ \A i \in SetIndices : Cardinality(ValidLinesOf(i)) <= E

\* every line of a two-way cache is valid and an eviction has happened
C20_Witness ==
    /\ Allocated /\ E = 2
    /\ eviction_count >= 1
    /\ Cardinality(ValidLines) = cache.S * cache.E

(* ------------------ properties of SpecMain, continued ------------------ *)
\* C16: for every configuration that has passed the checks of main and of
\* init_cache (s >= 0, E > 0, b >= 0, s below the width of size_t), the
\* allocation size sizeof(set_t) * 2^s has not wrapped modulo 2^64, the
\* shift amounts b and b + s of access_data are below 64, the run has
\* executed nothing undefined, and every set_index computed lies in [0, S).
C16_ChecksKeepArithmeticDefined ==
    (/\ pc \notin {"getopt", "check", "init"}
     /\ tracefile # "NULL"
     /\ s >= 0 /\ E > 0 /\ b >= 0 /\ s < SIZE_T_BITS) =>
        /\ ~Zero64(malloc_sets_size(s))
        /\ b < SIZE_T_BITS
        /\ b + s < SIZE_T_BITS
        /\ pc # "undefined"
        /\ acc # NoAcc => acc.set_index \in 0..(cache.S - 1)

====
